---- MODULE Spec2Model ----
(***************************************************************************)
(* Model of the spreadsheet normalizer (01-normalizador-planilhas):        *)
(* schema.py (canon_col, COLUMN_ALIASES, REQUIRED_COLUMNS), normalize.py   *)
(* (field parsers, normalize_dataframe, normalize_excel), validation.py    *)
(* (validate_dataframe, write_issues_csv, has_errors) and run_artifacts.py *)
(* (make_run_dir, write_summary).                                          *)
(*                                                                         *)
(* Text is a sequence of characters.  A character is a one-character       *)
(* string; a character outside ASCII is written by its code point, e.g.    *)
(* "U+00BA" for the masculine ordinal indicator of "N.o".                  *)
(***************************************************************************)
EXTENDS Integers, Sequences, FiniteSets, TLC

VARIABLES
    pc,              \* position of the normalize_excel call
    strict,          \* normalize_excel's strict argument
    df,              \* the table pd.read_excel returns: [columns, data]
    df2,             \* normalize_dataframe's table (NoTable before it)
    transform_stats, \* normalize_dataframe's stats
    issues,          \* validate_dataframe's list
    has_any,         \* write_issues_csv's return value
    fs,              \* the files of the run directory
    fs0,             \* the files of the run directory when the call began
    raised,          \* the exception that ended the call, if any
    cname,           \* canon_col: the header text given
    ckey,            \* canon_col(cname), <<"?">> before the call
    ckey2,           \* canon_col(ckey), <<"?">> before the call
    cpc,             \* position of the canon_col calls
    raw,             \* a field parser: the raw cell value given
    parsed,          \* the parser's result for raw, None before the call
    parsed2,         \* the parser's result for parsed, None before the call
    vpc              \* position of the field parser calls

vars == <<pc, strict, df, df2, transform_stats, issues, has_any, fs, fs0, raised,
          cname, ckey, ckey2, cpc, raw, parsed, parsed2, vpc>>
pipeVars == <<pc, strict, df, df2, transform_stats, issues, has_any, fs, fs0, raised>>
canonVars == <<cname, ckey, ckey2, cpc>>
parseVars == <<raw, parsed, parsed2, vpc>>

(***************************************************************************)
(* Bounds of the model.                                                    *)
(***************************************************************************)
\* longest text enumerated for canon_col and for _normalize_yes_no
MaxLen == 3
\* most rows of a table given to the run
MaxRows == 2
\* most rows of a table drawn from the wide set of rows
MaxWideRows == 1
\* longest amount text enumerated for _parse_money_mixed
MaxMoney == 4

(***************************************************************************)
(* Characters and Python's str methods.                                    *)
(***************************************************************************)
UpperChars ==
    <<"A", "B", "C", "D", "E", "F", "G", "H", "I", "J", "K", "L", "M", "N",
      "O", "P", "Q", "R", "S", "T", "U", "V", "W", "X", "Y", "Z",
      "U+00C3", "U+00C9", "U+00C7">>
LowerChars ==
    <<"a", "b", "c", "d", "e", "f", "g", "h", "i", "j", "k", "l", "m", "n",
      "o", "p", "q", "r", "s", "t", "u", "v", "w", "x", "y", "z",
      "U+00E3", "U+00E9", "U+00E7">>
Digits == {"0", "1", "2", "3", "4", "5", "6", "7", "8", "9"}
AsciiLower == {LowerChars[i] : i \in 1..26}

\* str.isspace: blank, tab, newline, no-break space
IsSpace(c) == c \in {" ", "\t", "\n", "U+00A0"}

UpperSet == {UpperChars[i] : i \in 1..Len(UpperChars)}
LowerSet == {LowerChars[i] : i \in 1..Len(LowerChars)}
ToLower == [c \in UpperSet |-> LowerChars[CHOOSE i \in 1..Len(UpperChars) : UpperChars[i] = c]]
ToUpper == [c \in LowerSet |-> UpperChars[CHOOSE i \in 1..Len(LowerChars) : LowerChars[i] = c]]

\* str.lower, str.upper on one character
LowerCh(c) == IF c \in UpperSet THEN ToLower[c] ELSE c
UpperCh(c) == IF c \in LowerSet THEN ToUpper[c] ELSE c
Lower(s) == [i \in 1..Len(s) |-> LowerCh(s[i])]
Upper(s) == [i \in 1..Len(s) |-> UpperCh(s[i])]

RECURSIVE LStrip(_)
LStrip(s) == IF s # <<>> /\ IsSpace(Head(s)) THEN LStrip(Tail(s)) ELSE s
RECURSIVE RStrip(_)
RStrip(s) ==
    IF s # <<>> /\ IsSpace(s[Len(s)]) THEN RStrip(SubSeq(s, 1, Len(s) - 1)) ELSE s
\* str.strip()
Strip(s) == RStrip(LStrip(s))

\* unicodedata.normalize("NFKD", c) of one character
NFKDCh(c) ==
    CASE c = "U+00E3" -> <<"a", "U+0303">>
      [] c = "U+00C3" -> <<"A", "U+0303">>
      [] c = "U+00E9" -> <<"e", "U+0301">>
      [] c = "U+00C9" -> <<"E", "U+0301">>
      [] c = "U+00E7" -> <<"c", "U+0327">>
      [] c = "U+00C7" -> <<"C", "U+0327">>
      [] c = "U+00BA" -> <<"o">>
      [] c = "U+00AA" -> <<"a">>
      [] c = "U+2116" -> <<"N", "o">>
      [] c = "U+00A0" -> <<" ">>
      [] OTHER -> <<c>>
RECURSIVE NFKD(_)
NFKD(s) == IF s = <<>> THEN <<>> ELSE NFKDCh(Head(s)) \o NFKD(Tail(s))
\* unicodedata.combining(c) # 0
Combining(c) == c \in {"U+0303", "U+0301", "U+0327"}

(***************************************************************************)
(* schema.py                                                               *)
(***************************************************************************)
IsSeparator(c) == c \in {"_", "-", "/"}
IsKeyChar(c) == c \in AsciiLower \cup Digits \cup {" "}
NotCombining(c) == ~Combining(c)

\* re.sub(r"[_\-\/]+", " ", s)
RECURSIVE SubSeparators(_)
SubSeparators(s) ==
    IF s = <<>> THEN <<>>
    ELSE IF IsSeparator(Head(s))
         THEN IF Len(s) > 1 /\ IsSeparator(s[2])
              THEN SubSeparators(Tail(s))
              ELSE <<" ">> \o SubSeparators(Tail(s))
         ELSE <<Head(s)>> \o SubSeparators(Tail(s))

\* re.sub(r"\s+", " ", s)
RECURSIVE CollapseSpaces(_)
CollapseSpaces(s) ==
    IF s = <<>> THEN <<>>
    ELSE IF IsSpace(Head(s))
         THEN IF Len(s) > 1 /\ IsSpace(s[2])
              THEN CollapseSpaces(Tail(s))
              ELSE <<" ">> \o CollapseSpaces(Tail(s))
         ELSE <<Head(s)>> \o CollapseSpaces(Tail(s))

\* re.sub(r"[^a-z0-9 ]+", "", s)
RemoveSymbols(s) == SelectSeq(s, IsKeyChar)

\* the mutant of canon_col: the accents are not folded before the symbols go
canon_col_NoFold(name) ==
    Strip(CollapseSpaces(RemoveSymbols(SubSeparators(Lower(Strip(name))))))

\* the mutant of canon_col: the whitespace runs are not compacted
canon_col_NoCollapse(name) ==
    RemoveSymbols(SubSeparators(SelectSeq(NFKD(Lower(Strip(name))), NotCombining)))

canon_col(name) ==
    LET s1 == Lower(Strip(name))
        s2 == SelectSeq(NFKD(s1), NotCombining)
        s3 == SubSeparators(s2)
        s4 == RemoveSymbols(s3)
    IN  Strip(CollapseSpaces(s4))

(***************************************************************************)
(* Cell values.  A cell is [k, s]: k is the kind of the Python value and s *)
(* its text.  "nan" is the float NaN pandas gives a blank cell, "none" is  *)
(* None, "str" a str, "num" a float (s: the number it holds),               *)
(* "ts" a Timestamp (s: its date as YYYY-MM-DD).                           *)
(***************************************************************************)
NaN == [k |-> "nan", s |-> <<>>]
None == [k |-> "none", s |-> <<>>]
Text(s) == [k |-> "str", s |-> s]
Float(s) == [k |-> "num", s |-> s]
Timestamp(s) == [k |-> "ts", s |-> s]

\* pd.isna / the complement of pd.notnull, on one value
IsNa(v) == v.k \in {"nan", "none"}

\* str(value)
Str(v) ==
    CASE v.k = "nan" -> <<"n", "a", "n">>
      [] v.k = "none" -> <<"N", "o", "n", "e">>
      [] OTHER -> v.s

DigitVals == [c \in Digits |-> CHOOSE n \in 0..9 : <<"0", "1", "2", "3", "4", "5", "6", "7", "8", "9">>[n + 1] = c]
DigitVal(c) == DigitVals[c]
AllDigits(s) == \A i \in 1..Len(s) : s[i] \in Digits
RECURSIVE NumOf(_)
NumOf(s) == IF s = <<>> THEN 0 ELSE 10 * NumOf(SubSeq(s, 1, Len(s) - 1)) + DigitVal(s[Len(s)])

(***************************************************************************)
(* normalize.py: the field parsers                                         *)
(***************************************************************************)
YesSet ==
    {<<"S", "I", "M">>, <<"S">>, <<"Y", "E", "S">>, <<"Y">>,
     <<"T", "R", "U", "E">>, <<"1">>}
NoSet ==
    {<<"N", "U+00C3", "O">>, <<"N", "A", "O">>, <<"N">>, <<"N", "O">>,
     <<"F", "A", "L", "S", "E">>, <<"0">>, <<>>}
SIM == <<"S", "I", "M">>
NAO == <<"N", "U+00C3", "O">>

\* the mutant of _normalize_yes_no: the text is not uppercased
normalize_yes_no_NoUpper(value) ==
    IF value.k = "none" \/ value.k = "nan" THEN Text(<<>>)
    ELSE LET s == Strip(Str(value))
         IN  IF s \in YesSet THEN Text(SIM)
             ELSE IF s \in NoSet THEN (IF s # <<>> THEN Text(NAO) ELSE Text(<<>>))
             ELSE Text(s)

normalize_yes_no(value) ==
    IF value.k = "none" \/ value.k = "nan" THEN Text(<<>>)
    ELSE LET s == Upper(Strip(Str(value)))
         IN  IF s \in YesSet THEN Text(SIM)
             ELSE IF s \in NoSet THEN (IF s # <<>> THEN Text(NAO) ELSE Text(<<>>))
             ELSE Text(s)

\* _RE_DATE matches s at position i: \d{2}/\d{2}/\d{4}
ReDateAt(s, i) ==
    /\ i + 9 <= Len(s)
    /\ AllDigits(SubSeq(s, i, i + 1)) /\ s[i + 2] = "/"
    /\ AllDigits(SubSeq(s, i + 3, i + 4)) /\ s[i + 5] = "/"
    /\ AllDigits(SubSeq(s, i + 6, i + 9))
ReDateMatches(s) == {i \in 1..Len(s) : ReDateAt(s, i)}
\* _RE_DATE.search(s).group(1): the leftmost match
ReDateSearch(s) ==
    LET i == CHOOSE j \in ReDateMatches(s) : \A l \in ReDateMatches(s) : j <= l
    IN  SubSeq(s, i, i + 9)

IsLeap(y) == (y % 4 = 0 /\ y % 100 # 0) \/ y % 400 = 0
DaysInMonth(y, m) ==
    IF m = 2 THEN (IF IsLeap(y) THEN 29 ELSE 28)
    ELSE IF m \in {4, 6, 9, 11} THEN 30 ELSE 31
ValidDate(y, m, d) == y >= 1 /\ m \in 1..12 /\ d >= 1 /\ d <= DaysInMonth(y, m)

\* pd.to_datetime(m, dayfirst=True, errors="coerce") for m = NN/NN/NNNN: the day
\* comes first; a second number above 12 makes pandas read the month first
ToDatetimeDayFirst(m) ==
    LET a == NumOf(SubSeq(m, 1, 2))
        b == NumOf(SubSeq(m, 4, 5))
        day == IF b > 12 THEN b ELSE a
        month == IF b > 12 THEN a ELSE b
        mm == IF b > 12 THEN SubSeq(m, 1, 2) ELSE SubSeq(m, 4, 5)
        dd == IF b > 12 THEN SubSeq(m, 4, 5) ELSE SubSeq(m, 1, 2)
    IN  IF ValidDate(NumOf(SubSeq(m, 7, 10)), month, day)
        THEN Timestamp(SubSeq(m, 7, 10) \o <<"-">> \o mm \o <<"-">> \o dd)
        ELSE NaN

\* s is YYYY-MM-DD, alone or followed by T and a time of day
IsIsoDate(s) ==
    /\ Len(s) >= 10
    /\ AllDigits(SubSeq(s, 1, 4)) /\ s[5] = "-"
    /\ AllDigits(SubSeq(s, 6, 7)) /\ s[8] = "-"
    /\ AllDigits(SubSeq(s, 9, 10))
    /\ \/ Len(s) = 10
       \/ /\ Len(s) = 19 /\ s[11] = "T"
          /\ AllDigits(SubSeq(s, 12, 13)) /\ s[14] = ":"
          /\ AllDigits(SubSeq(s, 15, 16)) /\ s[17] = ":"
          /\ AllDigits(SubSeq(s, 18, 19))
          /\ NumOf(SubSeq(s, 12, 13)) < 24
          /\ NumOf(SubSeq(s, 15, 16)) < 60
          /\ NumOf(SubSeq(s, 18, 19)) < 60

\* pd.to_datetime(s, errors="coerce") on the texts of the model: the ISO
\* forms of the docstring give a Timestamp, every other text NaT
ToDatetime(s) ==
    IF /\ IsIsoDate(s)
       /\ ValidDate(NumOf(SubSeq(s, 1, 4)), NumOf(SubSeq(s, 6, 7)), NumOf(SubSeq(s, 9, 10)))
    THEN Timestamp(SubSeq(s, 1, 10))
    ELSE NaN

\* None if pd.isna(ts) else ts
NoneIfNa(ts) == IF IsNa(ts) THEN None ELSE ts

\* the mutant of _parse_date_mixed: a text that is no date is kept as it is
KeepIfNa(ts, s) == IF IsNa(ts) THEN Text(s) ELSE ts
parse_date_mixed_Keep(value) ==
    IF value.k = "none" THEN None
    ELSE LET s == Strip(Str(value))
         IN  IF s = <<>> THEN None
             ELSE IF ReDateMatches(s) # {}
                  THEN KeepIfNa(ToDatetimeDayFirst(ReDateSearch(s)), s)
                  ELSE KeepIfNa(ToDatetime(s), s)

parse_date_mixed(value) ==
    IF value.k = "none" THEN None
    ELSE LET s == Strip(Str(value))
         IN  IF s = <<>> THEN None
             ELSE IF ReDateMatches(s) # {}
                  THEN NoneIfNa(ToDatetimeDayFirst(ReDateSearch(s)))
                  ELSE NoneIfNa(ToDatetime(s))

\* s.replace(old, ""), old being one or two characters long
RECURSIVE Remove(_, _)
Remove(s, old) ==
    IF Len(s) < Len(old) THEN s
    ELSE IF SubSeq(s, 1, Len(old)) = old
         THEN Remove(SubSeq(s, Len(old) + 1, Len(s)), old)
         ELSE <<Head(s)>> \o Remove(Tail(s), old)
\* s.replace(",", ".")
CommaToDot(s) == [i \in 1..Len(s) |-> IF s[i] = "," THEN "." ELSE s[i]]
Contains(s, c) == \E i \in 1..Len(s) : s[i] = c
\* s.rfind(c), 0 standing for Python's -1
RFind(s, c) ==
    IF Contains(s, c)
    THEN CHOOSE i \in 1..Len(s) : s[i] = c /\ \A j \in (i + 1)..Len(s) : s[j] # c
    ELSE 0

HasSign(s) == s # <<>> /\ Head(s) \in {"+", "-"}
Unsigned(s) == IF HasSign(s) THEN Tail(s) ELSE s
IsMantissa(m) ==
    /\ \A i \in 1..Len(m) : m[i] \in Digits \cup {"."}
    /\ \E i \in 1..Len(m) : m[i] \in Digits
    /\ Cardinality({i \in 1..Len(m) : m[i] = "."}) <= 1
IsExponent(e) == Unsigned(e) # <<>> /\ AllDigits(Unsigned(e))
ExpAt(s) == {i \in 1..Len(s) : s[i] \in {"e", "E"}}
\* the decimal literals float() accepts (digit-group underscores aside)
IsDecimal(s) ==
    \/ IsMantissa(s)
    \/ \E i \in ExpAt(s) :
          IsMantissa(SubSeq(s, 1, i - 1)) /\ IsExponent(SubSeq(s, i + 1, Len(s)))

\* the number a float holds: (-1)^neg * m * 10^e with m no multiple of ten, or
\* an infinity; two literals of the same number give the same float
Finite(neg, m, e) == [inf |-> FALSE, neg |-> neg, m |-> m, e |-> e]
Infinite(neg) == [inf |-> TRUE, neg |-> neg, m |-> 0, e |-> 0]
IsDigit(c) == c \in Digits
\* the digits d scaled by 10^e: trailing zeros move into the exponent
RECURSIVE Scaled(_, _, _)
Scaled(neg, d, e) ==
    IF \A i \in 1..Len(d) : d[i] = "0" THEN Finite(FALSE, 0, 0)
    ELSE IF d[Len(d)] = "0" THEN Scaled(neg, SubSeq(d, 1, Len(d) - 1), e + 1)
    ELSE Finite(neg, NumOf(d), e)
\* the value of the exponent part e (empty when the literal has none)
ExponentOf(e) ==
    IF e = <<>> THEN 0
    ELSE IF Head(e) = "-" THEN 0 - NumOf(Unsigned(e)) ELSE NumOf(Unsigned(e))
\* the number of the unsigned decimal literal u
DecimalOf(neg, u) ==
    LET ie == IF ExpAt(u) = {} THEN Len(u) + 1 ELSE CHOOSE i \in ExpAt(u) : TRUE
        mant == SubSeq(u, 1, ie - 1)
        point == RFind(mant, ".")
        frac == IF point = 0 THEN 0 ELSE Len(mant) - point
    IN  Scaled(neg, SelectSeq(mant, IsDigit), ExponentOf(SubSeq(u, ie + 1, Len(u))) - frac)

Infinities == {<<"i", "n", "f">>, <<"i", "n", "f", "i", "n", "i", "t", "y">>}

\* float(s): a float, the float NaN for "nan", None for a ValueError
FloatOf(s) ==
    LET t == Strip(s)
        u == Lower(Unsigned(t))
        neg == HasSign(t) /\ Head(t) = "-"
    IN  IF u = <<"n", "a", "n">> THEN NaN
        ELSE IF u \in Infinities THEN Float(Infinite(neg))
        ELSE IF IsDecimal(u) THEN Float(DecimalOf(neg, u))
        ELSE None

\* the mutant of _parse_money_mixed: the comma is the decimal separator whenever
\* there is one
MoneyText_CommaDecimal(s0) ==
    LET s == Remove(Remove(s0, <<"R", "$">>), <<" ">>)
    IN  IF Contains(s, ",") THEN CommaToDot(Remove(s, <<".">>)) ELSE s

\* the text _parse_money_mixed hands to float()
MoneyText(s0) ==
    LET s == Remove(Remove(s0, <<"R", "$">>), <<" ">>)
    IN  IF Contains(s, ".") /\ Contains(s, ",")
        THEN IF RFind(s, ",") > RFind(s, ".")
             THEN CommaToDot(Remove(s, <<".">>))
             ELSE Remove(s, <<",">>)
        ELSE IF Contains(s, ",") /\ ~Contains(s, ".")
             THEN CommaToDot(Remove(s, <<".">>))
             ELSE s

parse_money_mixed(value) ==
    IF value.k = "none" THEN None
    ELSE LET s == Strip(Str(value))
         IN  IF s = <<>> THEN None ELSE FloatOf(MoneyText(s))

(***************************************************************************)
(* schema.py: the alias table and the required columns                     *)
(***************************************************************************)
col_Cliente == <<"C", "l", "i", "e", "n", "t", "e">>
col_Contrato == <<"C", "o", "n", "t", "r", "a", "t", "o">>
col_DataPagamento == <<"D", "a", "t", "a", " ", "P", "a", "g", "a", "m", "e", "n", "t", "o">>
col_Emissao == <<"E", "m", "i", "s", "s", "U+00E3", "o">>
col_Pago == <<"P", "a", "g", "o">>
col_Prazo == <<"P", "r", "a", "z", "o">>
col_TEDDevolvida == <<"T", "E", "D", "/", "D", "e", "v", "o", "l", "v", "i", "d", "a">>
col_Taxa == <<"T", "a", "x", "a">>
col_VALORPAGO == <<"V", "A", "L", "O", "R", " ", "P", "A", "G", "O">>
col_ValorCancelado == <<"V", "a", "l", "o", "r", " ", "C", "a", "n", "c", "e", "l", "a", "d", "o">>
col_ValorDevolvido == <<"V", "a", "l", "o", "r", " ", "D", "e", "v", "o", "l", "v", "i", "d", "o">>
col_VlrLiberado == <<"V", "l", "r", " ", "L", "i", "b", "e", "r", "a", "d", "o">>

\* COLUMN_ALIASES as the sequence of its (key, internal name) pairs
COLUMN_ALIASES ==
    <<<<<<"c", "l", "i", "e", "n", "t", "e">>, col_Cliente>>,
      <<<<"n", "o", "m", "e", " ", "c", "l", "i", "e", "n", "t", "e">>, col_Cliente>>,
      <<<<"c", "o", "n", "t", "r", "a", "t", "o">>, col_Contrato>>,
      <<<<"n", "r", " ", "c", "o", "n", "t", "r", "a", "t", "o">>, col_Contrato>>,
      <<<<"n", "u", "m", "e", "r", "o", " ", "c", "o", "n", "t", "r", "a", "t", "o">>, col_Contrato>>,
      <<<<"t", "a", "x", "a">>, col_Taxa>>,
      <<<<"t", "x">>, col_Taxa>>,
      <<<<"e", "m", "i", "s", "s", "a", "o">>, col_Emissao>>,
      <<<<"e", "m", "i", "s", "s", "a", "o", " ", "c", "o", "n", "t", "r", "a", "t", "o">>, col_Emissao>>,
      <<<<"d", "a", "t", "a", " ", "e", "m", "i", "s", "s", "a", "o">>, col_Emissao>>,
      <<<<"d", "a", "t", "a", " ", "d", "e", " ", "e", "m", "i", "s", "s", "a", "o">>, col_Emissao>>,
      <<<<"p", "r", "a", "z", "o">>, col_Prazo>>,
      <<<<"p", "r", "a", "z", "o", " ", "m", "e", "s", "e", "s">>, col_Prazo>>,
      <<<<"v", "l", "r", " ", "l", "i", "b", "e", "r", "a", "d", "o">>, col_VlrLiberado>>,
      <<<<"v", "a", "l", "o", "r", " ", "l", "i", "b", "e", "r", "a", "d", "o">>, col_VlrLiberado>>,
      <<<<"v", "a", "l", "o", "r", " ", "l", "i", "b", "e", "r", "a", "c", "a", "o">>, col_VlrLiberado>>,
      <<<<"v", "a", "l", "o", "r", " ", "c", "a", "n", "c", "e", "l", "a", "d", "o">>, col_ValorCancelado>>,
      <<<<"v", "l", "r", " ", "c", "a", "n", "c", "e", "l", "a", "d", "o">>, col_ValorCancelado>>,
      <<<<"v", "a", "l", "o", "r", " ", "p", "a", "g", "o">>, col_VALORPAGO>>,
      <<<<"v", "l", "r", " ", "p", "a", "g", "o">>, col_VALORPAGO>>,
      <<<<"d", "a", "t", "a", " ", "p", "a", "g", "a", "m", "e", "n", "t", "o">>, col_DataPagamento>>,
      <<<<"d", "a", "t", "a", " ", "d", "o", " ", "p", "a", "g", "a", "m", "e", "n", "t", "o">>, col_DataPagamento>>,
      <<<<"p", "a", "g", "o">>, col_Pago>>,
      <<<<"t", "e", "d", " ", "d", "e", "v", "o", "l", "v", "i", "d", "a">>, col_TEDDevolvida>>,
      <<<<"t", "e", "d", " ", "d", "e", "v", "o", "l", "v", "i", "d", "o">>, col_TEDDevolvida>>,
      <<<<"t", "e", "d", "d", "e", "v", "o", "l", "v", "i", "d", "a">>, col_TEDDevolvida>>,
      <<<<"v", "a", "l", "o", "r", " ", "d", "e", "v", "o", "l", "v", "i", "d", "o">>, col_ValorDevolvido>>,
      <<<<"v", "a", "l", "o", "r", " ", "d", "e", "v", "o", "l", "u", "c", "a", "o">>, col_ValorDevolvido>>>>

AliasKeys == {COLUMN_ALIASES[i][1] : i \in 1..Len(COLUMN_ALIASES)}
AliasMap ==
    [key \in AliasKeys |->
        COLUMN_ALIASES[CHOOSE i \in 1..Len(COLUMN_ALIASES) : COLUMN_ALIASES[i][1] = key][2]]
\* key in COLUMN_ALIASES, COLUMN_ALIASES[key]
IsAlias(key) == key \in AliasKeys
AliasOf(key) == AliasMap[key]

REQUIRED_COLUMNS == {col_Cliente, col_Contrato, col_Emissao, col_VlrLiberado}

(***************************************************************************)
(* Tables.  A DataFrame is [columns, data]: the column labels and the rows,*)
(* each row holding one cell per column.  Text columns have dtype object,  *)
(* a blank cell is the float NaN, and the row index is 0, 1, 2, ...        *)
(***************************************************************************)
NoTable == [columns |-> <<>>, data |-> <<>>]
HasColumn(d, name) == \E j \in 1..Len(d.columns) : d.columns[j] = name
ColumnAt(d, name) == CHOOSE j \in 1..Len(d.columns) : d.columns[j] = name
\* row.get(name) of the row at position r (1-based)
Get(d, r, name) == IF HasColumn(d, name) THEN d.data[r][ColumnAt(d, name)] ELSE None

\* df[col].astype(str).str.strip() on one value
AsStrStripped(v) == Text(Strip(Str(v)))

\* what normalize_dataframe applies to a value of the column called name
ParseCell(name, v) ==
    CASE name \in {col_Taxa, col_VlrLiberado, col_ValorCancelado, col_VALORPAGO,
                   col_ValorDevolvido} -> parse_money_mixed(v)
      [] name \in {col_Emissao, col_DataPagamento} -> parse_date_mixed(v)
      [] name \in {col_Pago, col_TEDDevolvida} -> normalize_yes_no(v)
      [] name = col_Contrato -> AsStrStripped(v)
      [] OTHER -> v

\* df.where(pd.notnull(df), None) on one value
WhereNotNull(v) == IF IsNa(v) THEN None ELSE v

\* the column labels after the strip, the alias renaming and the second strip
RenameColumn(c) ==
    LET col == Strip(c)
    IN  Strip(IF IsAlias(canon_col(col)) THEN AliasOf(canon_col(col)) ELSE col)
RECURSIVE RenameAll(_)
RenameAll(cs) ==
    IF cs = <<>> THEN <<>> ELSE <<RenameColumn(Head(cs))>> \o RenameAll(Tail(cs))
RenamedColumns(d) == RenameAll(d.columns)

\* sorted(REQUIRED_COLUMNS - set(df.columns)), as a set
MissingIn(cols) == REQUIRED_COLUMNS \ {cols[j] : j \in 1..Len(cols)}
MissingColumns(d) == UNION {MissingIn(cols) : cols \in {RenamedColumns(d)}}

\* series.notna().sum() of column j
NonEmpty(rows, j) == Cardinality({r \in 1..Len(rows) : ~IsNa(rows[r][j])})

\* the parsed table under the column labels cols
ParsedTable(d, cols) ==
    [columns |-> cols,
     data |-> [r \in 1..Len(d.data) |->
                 [j \in 1..Len(cols) |-> WhereNotNull(ParseCell(cols[j], d.data[r][j]))]]]

\* the table normalize_dataframe returns
NormalizedTable(d) ==
    CHOOSE t \in {ParsedTable(d, cols) : cols \in {RenamedColumns(d)}} : TRUE

\* _apply_with_stats, for the column at position j, called name
ApplyStats(d, name, j) ==
    LET before == NonEmpty(d.data, j)
        out == [r \in 1..Len(d.data) |-> <<ParseCell(name, d.data[r][j])>>]
        after == NonEmpty(out, 1)
    IN  [before_non_empty |-> before, after_non_empty |-> after,
         became_empty |-> before - after]

\* the mutant of the stats: the payment date is recorded like the issue date
StatsOf_WithPayment(d, cols) ==
    [name \in {col_Taxa, col_Emissao, col_DataPagamento} \cap {cols[j] : j \in 1..Len(cols)} |->
        ApplyStats(d, name, CHOOSE j \in 1..Len(cols) : cols[j] = name)]

\* the stats under the column labels cols: one entry per column among Taxa, Emissao
StatsOf(d, cols) ==
    [name \in {col_Taxa, col_Emissao} \cap {cols[j] : j \in 1..Len(cols)} |->
        ApplyStats(d, name, CHOOSE j \in 1..Len(cols) : cols[j] = name)]

\* the stats normalize_dataframe returns
TransformStats(d) ==
    CHOOSE s \in {StatsOf(d, cols) : cols \in {RenamedColumns(d)}} : TRUE

(***************************************************************************)
(* validation.py                                                           *)
(***************************************************************************)
Issue(sev, row, contrato, cliente, message) ==
    [severity |-> sev, row |-> row, contrato |-> contrato, cliente |-> cliente,
     message |-> message]

MsgContrato == "Contrato vazio"
MsgCliente == "Cliente vazio"
MsgData == "Pago=SIM mas Data Pagamento vazio"
MsgValor == "Pago=SIM mas VALOR PAGO vazio"
MsgWarn == "Pago!=SIM mas VALOR PAGO preenchido"
MsgTed == "TED/Devolvida=SIM mas Valor Devolvido vazio"

\* _s(val)
StrOrNone(val) ==
    IF val.k = "none" THEN None
    ELSE IF Strip(Str(val)) # <<>> THEN Text(Strip(Str(val))) ELSE None

\* [x] if cond else []
When(cond, x) == IF cond THEN <<x>> ELSE <<>>

\* lines 34-35: cliente, contrato
ClienteOf(d, r) == StrOrNone(Get(d, r, col_Cliente))
ContratoOf(d, r) == StrOrNone(Get(d, r, col_Contrato))
\* an issue of the row at position r (index r - 1)
RowIssue(d, r, sev, message) ==
    Issue(sev, r - 1, ContratoOf(d, r), ClienteOf(d, r), message)

\* lines 45-46
CheckContrato(d, r) ==
    When(ContratoOf(d, r) = None, Issue("ERROR", r - 1, None, ClienteOf(d, r), MsgContrato))
\* lines 47-48
CheckCliente(d, r) ==
    When(ClienteOf(d, r) = None, Issue("ERROR", r - 1, ContratoOf(d, r), None, MsgCliente))
\* lines 51-55
CheckData(d, r) ==
    When(Get(d, r, col_Pago) = Text(SIM) /\ IsNa(Get(d, r, col_DataPagamento)),
         RowIssue(d, r, "ERROR", MsgData))
\* lines 51, 56-59
CheckValor(d, r) ==
    When(Get(d, r, col_Pago) = Text(SIM) /\ IsNa(Get(d, r, col_VALORPAGO)),
         RowIssue(d, r, "ERROR", MsgValor))

\* the mutant of the WARN check: only a flag that reads NAO is taken as not paid
CheckWarn_OnlyNo(d, r) ==
    When(Get(d, r, col_Pago) = Text(NAO) /\ ~IsNa(Get(d, r, col_VALORPAGO)),
         RowIssue(d, r, "WARN", MsgWarn))

\* lines 62-65
CheckWarn(d, r) ==
    When(Get(d, r, col_Pago) # Text(SIM) /\ ~IsNa(Get(d, r, col_VALORPAGO)),
         RowIssue(d, r, "WARN", MsgWarn))
\* lines 68-73
CheckTed(d, r) ==
    When(Get(d, r, col_TEDDevolvida) = Text(SIM) /\ IsNa(Get(d, r, col_ValorDevolvido)),
         RowIssue(d, r, "ERROR", MsgTed))

\* the mutant of the loop body: the client is checked before the contract
RowIssues_ClientFirst(d, r) ==
    CheckCliente(d, r) \o CheckContrato(d, r) \o CheckData(d, r) \o CheckValor(d, r)
    \o CheckWarn(d, r) \o CheckTed(d, r)

\* the issues one pass of validate_dataframe's loop appends, for the row at
\* position r (index r - 1)
RowIssues(d, r) ==
    CheckContrato(d, r) \o CheckCliente(d, r) \o CheckData(d, r) \o CheckValor(d, r)
    \o CheckWarn(d, r) \o CheckTed(d, r)

\* the list after the rows at positions 1..n
RECURSIVE IssuesUpTo(_, _)
IssuesUpTo(d, n) == IF n = 0 THEN <<>> ELSE IssuesUpTo(d, n - 1) \o RowIssues(d, n)

validate_dataframe(d) == IssuesUpTo(d, Len(d.data))

has_errors(iss) == \E i \in 1..Len(iss) : iss[i].severity = "ERROR"

\* to_csv writes None as an empty field
CsvField(v) == IF v.k = "none" THEN <<>> ELSE v.s
\* the row of issues.csv for one issue
CsvRow(i) ==
    [Severidade |-> i.severity, Linha |-> i.row, Contrato |-> CsvField(i.contrato),
     Cliente |-> CsvField(i.cliente), Mensagem |-> i.message]

(***************************************************************************)
(* run_artifacts.py and the files of the run directory.  A file is         *)
(* [state, content]: "absent", "stale" (left in the directory by an        *)
(* earlier run that got the same timestamp) or "written" (by this run).    *)
(***************************************************************************)
Absent == [state |-> "absent", content |-> <<>>]
Stale == [state |-> "stale", content |-> <<>>]
Written(content) == [state |-> "written", content |-> content]
Exists(f) == f.state # "absent"

\* make_run_dir: mkdir(parents=True, exist_ok=True) keeps what the directory holds
make_run_dir(files) == [files EXCEPT !.run_dir = TRUE]

\* the mutant of write_issues_csv: an empty list leaves the file alone
write_issues_csv_NoUnlink(iss, files) ==
    IF iss = <<>> THEN files
    ELSE [files EXCEPT !.run_dir = TRUE,
                       !.issues_csv = Written([i \in 1..Len(iss) |-> CsvRow(iss[i])])]

\* write_issues_csv: the files after the call
write_issues_csv(iss, files) ==
    IF iss = <<>>
    THEN IF Exists(files.issues_csv) THEN [files EXCEPT !.issues_csv = Absent] ELSE files
    ELSE [files EXCEPT !.run_dir = TRUE,
                       !.issues_csv = Written([i \in 1..Len(iss) |-> CsvRow(iss[i])])]
\* write_issues_csv: the value returned
write_issues_csv_result(iss) == iss # <<>>

CountSeverity(iss, sev) == Cardinality({i \in 1..Len(iss) : iss[i].severity = sev})

\* the RunSummary normalize_excel builds (the clock and the paths aside)
RunSummary(d, iss, stats) ==
    [rows |-> Len(d.data), cols |-> Len(d.columns),
     num_errors |-> CountSeverity(iss, "ERROR"), num_warn |-> CountSeverity(iss, "WARN"),
     notes |-> stats]
\* write_summary
write_summary(summary, files) ==
    [files EXCEPT !.run_dir = TRUE, !.summary = Written(<<summary>>)]

NoError == [kind |-> "none", missing |-> {}]
\* ValueError(f"Colunas obrigatorias ausentes: {missing}")
MissingError(missing) == [kind |-> "missing_columns", missing |-> missing]
\* ValueError("Execucao em modo --strict: issues ERROR detectadas.")
StrictError == [kind |-> "strict", missing |-> {}]

(***************************************************************************)
(* normalize.py: normalize_excel, one action per step of the call          *)
(***************************************************************************)
\* the mutant of the required-columns check: it never raises
RequiredMissing_Never(d) == FALSE

\* line 114: if missing
RequiredMissing(d) == MissingColumns(d) # {}

\* normalize_dataframe raises: a required column is missing
NormalizeRaises ==
    /\ pc = "read"
    /\ RequiredMissing(df)
    /\ raised' = MissingError(MissingColumns(df))
    /\ pc' = "raised"
    /\ UNCHANGED <<strict, fs0, df, df2, transform_stats, issues, has_any, fs, canonVars, parseVars>>

\* normalize_dataframe returns
NormalizeReturns ==
    /\ pc = "read"
    /\ ~RequiredMissing(df)
    /\ df2' = NormalizedTable(df)
    /\ transform_stats' = TransformStats(df)
    /\ pc' = "normalized"
    /\ UNCHANGED <<strict, fs0, df, issues, has_any, fs, raised, canonVars, parseVars>>

MakeRunDir ==
    /\ pc = "normalized"
    /\ fs' = make_run_dir(fs)
    /\ pc' = "run_dir"
    /\ UNCHANGED <<strict, fs0, df, df2, transform_stats, issues, has_any, raised, canonVars, parseVars>>

ValidateDataframe ==
    /\ pc = "run_dir"
    /\ issues' = validate_dataframe(df2)
    /\ pc' = "validated"
    /\ UNCHANGED <<strict, fs0, df, df2, transform_stats, has_any, fs, raised, canonVars, parseVars>>

WriteIssuesCsv ==
    /\ pc = "validated"
    /\ fs' = write_issues_csv(issues, fs)
    /\ has_any' = write_issues_csv_result(issues)
    /\ pc' = "issues_written"
    /\ UNCHANGED <<strict, fs0, df, df2, transform_stats, issues, raised, canonVars, parseVars>>

\* the mutant of the strict gate: strict fails the run on any issue
StrictFails_AnyIssue == has_any /\ strict

\* lines 242-244: if has_any: if strict and has_errors(issues)
StrictFails == has_any /\ strict /\ has_errors(issues)

\* line 245: raise ValueError
StrictRaises ==
    /\ pc = "issues_written"
    /\ StrictFails
    /\ raised' = StrictError
    /\ pc' = "raised"
    /\ UNCHANGED <<strict, fs0, df, df2, transform_stats, issues, has_any, fs, canonVars, parseVars>>

\* line 248: df2.to_excel(run_output)
SaveExcel ==
    /\ pc = "issues_written"
    /\ ~StrictFails
    /\ fs' = [fs EXCEPT !.output = Written(<<"plain">>)]
    /\ pc' = "saved"
    /\ UNCHANGED <<strict, fs0, df, df2, transform_stats, issues, has_any, raised, canonVars, parseVars>>

\* line 251: _format_excel(run_output) loads the workbook, styles it, saves it
FormatExcel ==
    /\ pc = "saved"
    /\ fs' = [fs EXCEPT !.output = Written(<<"formatted">>)]
    /\ pc' = "formatted"
    /\ UNCHANGED <<strict, fs0, df, df2, transform_stats, issues, has_any, raised, canonVars, parseVars>>

\* lines 253-266
WriteSummary ==
    /\ pc = "formatted"
    /\ fs' = write_summary(RunSummary(df2, issues, transform_stats), fs)
    /\ pc' = "done"
    /\ UNCHANGED <<strict, fs0, df, df2, transform_stats, issues, has_any, raised, canonVars, parseVars>>

NextRun ==
    \/ NormalizeRaises
    \/ NormalizeReturns
    \/ MakeRunDir
    \/ ValidateDataframe
    \/ WriteIssuesCsv
    \/ StrictRaises
    \/ SaveExcel
    \/ FormatExcel
    \/ WriteSummary

(***************************************************************************)
(* The calls of canon_col                                                  *)
(***************************************************************************)
Unset == <<"?">>

CanonCol ==
    /\ cpc = "given"
    /\ ckey' = canon_col(cname)
    /\ cpc' = "once"
    /\ UNCHANGED <<cname, ckey2, pipeVars, parseVars>>

CanonColAgain ==
    /\ cpc = "once"
    /\ ckey2' = canon_col(ckey)
    /\ cpc' = "twice"
    /\ UNCHANGED <<cname, ckey, pipeVars, parseVars>>

NextCanon ==
    \/ CanonCol
    \/ CanonColAgain

(***************************************************************************)
(* The calls of the field parsers                                          *)
(***************************************************************************)
\* _normalize_yes_no(raw)
NormalizeYesNo ==
    /\ vpc = "given"
    /\ parsed' = normalize_yes_no(raw)
    /\ vpc' = "once"
    /\ UNCHANGED <<raw, parsed2, pipeVars, canonVars>>

\* _normalize_yes_no(_normalize_yes_no(raw))
NormalizeYesNoAgain ==
    /\ vpc = "once"
    /\ parsed2' = normalize_yes_no(parsed)
    /\ vpc' = "twice"
    /\ UNCHANGED <<raw, parsed, pipeVars, canonVars>>

NextYesNo ==
    \/ NormalizeYesNo
    \/ NormalizeYesNoAgain

\* _parse_money_mixed(raw)
ParseMoney ==
    /\ vpc = "given"
    /\ parsed' = parse_money_mixed(raw)
    /\ vpc' = "once"
    /\ UNCHANGED <<raw, parsed2, pipeVars, canonVars>>

NextMoney == ParseMoney

(***************************************************************************)
(* The inputs: header rows, cells, rows, tables, prior directory contents  *)
(***************************************************************************)
HeadersExact ==
    <<col_Cliente, col_Contrato, col_Emissao, col_VlrLiberado, col_Pago,
      col_DataPagamento, col_VALORPAGO, col_TEDDevolvida, col_ValorDevolvido, col_Taxa>>
\* " nome_cliente", "numero_contrato", "Data de Emissao", "VALOR LIBERADO ", "pago",
\* "Data do Pagamento", "Vlr. Pago", "TED-Devolvida", "Valor Devolucao", "Tx"
HeadersAlias ==
    <<<<" ", "n", "o", "m", "e", "_", "c", "l", "i", "e", "n", "t", "e">>,
      <<"n", "u", "m", "e", "r", "o", "_", "c", "o", "n", "t", "r", "a", "t", "o">>,
      <<"D", "a", "t", "a", " ", "d", "e", " ", "E", "m", "i", "s", "s", "U+00E3", "o">>,
      <<"V", "A", "L", "O", "R", " ", "L", "I", "B", "E", "R", "A", "D", "O", " ">>,
      <<"p", "a", "g", "o">>,
      <<"D", "a", "t", "a", " ", "d", "o", " ", "P", "a", "g", "a", "m", "e", "n", "t", "o">>,
      <<"V", "l", "r", ".", " ", "P", "a", "g", "o">>,
      <<"T", "E", "D", "-", "D", "e", "v", "o", "l", "v", "i", "d", "a">>,
      <<"V", "a", "l", "o", "r", " ", "D", "e", "v", "o", "l", "u", "U+00E7", "U+00E3", "o">>,
      <<"T", "x">>>>
\* "N.o Contrato" written with the ordinal indicator, and "numero_contrato"
NoContrato == <<"N", "U+00BA", " ", "C", "o", "n", "t", "r", "a", "t", "o">>
NumeroContrato == <<"n", "u", "m", "e", "r", "o", "_", "c", "o", "n", "t", "r", "a", "t", "o">>

\* a header row: the header texts and, for each, the field of the row it holds
AllFields == <<1, 2, 3, 4, 5, 6, 7, 8, 9, 10>>
SheetExact == [headers |-> HeadersExact, fields |-> AllFields]
SheetAlias == [headers |-> HeadersAlias, fields |-> AllFields]
SheetOrdinal == [headers |-> [HeadersExact EXCEPT ![2] = NoContrato], fields |-> AllFields]
SheetRequiredOnly == [headers |-> SubSeq(HeadersExact, 1, 4), fields |-> <<1, 2, 3, 4>>]
SheetNoEmissao ==
    [headers |-> <<col_Cliente, col_Contrato, col_Pago, col_VALORPAGO>>,
     fields |-> <<1, 2, 5, 7>>]

\* the table pd.read_excel returns for a header row and rows of ten fields
ReadExcel(sheet, rows) ==
    [columns |-> sheet.headers,
     data |-> [r \in 1..Len(rows) |->
                 [j \in 1..Len(sheet.fields) |-> rows[r][sheet.fields[j]]]]]

T_ANA == Text(<<"A", "N", "A">>)
T_ANA_padded == Text(<<" ", "A", "N", "A", " ">>)
T_blanks == Text(<<" ", " ">>)
T_contract == Text(<<"8", "6", "1", "2", "3", "4", "-", "3">>)
T_sim == Text(<<"s", "i", "m">>)
T_Sim_padded == Text(<<" ", "S", "i", "m", " ">>)
T_NAO == Text(<<"N", "U+00C3", "O">>)
T_talvez == Text(<<"t", "a", "l", "v", "e", "z">>)
T_date == Text(<<"0", "2", "/", "0", "1", "/", "2", "0", "2", "6">>)
T_date_marked == Text(<<"(", ")", " ", "0", "2", "/", "0", "1", "/", "2", "0", "2", "6">>)
T_date_iso == Text(<<"2", "0", "2", "6", "-", "0", "1", "-", "0", "2">>)
T_date_feb31 == Text(<<"3", "1", "/", "0", "2", "/", "2", "0", "2", "6">>)
T_xx == Text(<<"x", "x">>)
T_money_pt == Text(<<"3", ".", "0", "0", "0", ",", "0", "0">>)
T_money_rs == Text(<<"R", "$", " ", "1", "0", ",", "5", "0">>)
T_abc == Text(<<"a", "b", "c">>)
T_10 == Text(<<"1", "0">>)
T_S == Text(<<"S">>)
T_rate == Text(<<"7", ".", "9", "0">>)

\* a row: Cliente, Contrato, Emissao, Vlr Liberado, Pago, Data Pagamento,
\* VALOR PAGO, TED/Devolvida, Valor Devolvido, Taxa
Row(cliente, contrato, pago, data_pag, vlr_pago, ted, vlr_dev) ==
    <<cliente, contrato, T_date_marked, T_money_pt, pago, data_pag, vlr_pago, ted,
      vlr_dev, T_rate>>

\* the rows of the runs: clean, paid in full, a WARN alone, five ERRORs, and a
\* blank contract beside an empty client, a WARN and a return without amount
RowClean == Row(T_ANA, T_contract, NaN, NaN, NaN, NaN, NaN)
RowPaid == Row(T_ANA_padded, T_contract, T_sim, T_date, T_money_pt, T_S, T_10)
RowWarn == Row(T_ANA, T_contract, T_NAO, NaN, T_10, NaN, NaN)
RowBad == Row(NaN, T_blanks, T_Sim_padded, T_xx, T_abc, T_S, NaN)
RowMixed == Row(T_blanks, NaN, T_talvez, T_date, T_money_rs, T_sim, T_abc)
RunRows == {RowClean, RowPaid, RowWarn, RowBad, RowMixed}

\* the wide set of rows: every client and contract cell beside an unpaid and a
\* paid row; every paid flag, payment date and paid amount; every returned flag
\* and returned amount
RowsByIdentity ==
    {Row(cli, con, p[1], p[2], p[3], NaN, NaN) :
        cli \in {NaN, T_blanks, T_ANA_padded},
        con \in {NaN, T_blanks, T_contract},
        p \in {<<NaN, NaN, NaN>>, <<T_Sim_padded, NaN, T_abc>>}}
RowsByPayment ==
    {Row(T_ANA, T_contract, pago, dat, vlr, NaN, NaN) :
        pago \in {NaN, T_sim, T_NAO, T_talvez},
        dat \in {NaN, T_date_iso, T_date_feb31, T_xx},
        vlr \in {NaN, T_money_rs, T_abc}}
RowsByReturn ==
    {Row(T_ANA, T_contract, p[1], p[2], p[3], ted, dev) :
        p \in {<<NaN, NaN, NaN>>, <<T_NAO, NaN, T_10>>},
        ted \in {NaN, T_S, T_NAO},
        dev \in {NaN, T_10, T_abc}}
WideRows == RowsByIdentity \cup RowsByPayment \cup RowsByReturn

\* the rows for the stats: every issue date beside every rate
StatsRows ==
    {[RowPaid EXCEPT ![3] = emissao, ![10] = taxa] :
        emissao \in {NaN, T_blanks, T_date_marked, T_xx},
        taxa \in {NaN, T_rate, T_abc}}

SeqsUpTo(S, n) == UNION {[1..k -> S] : k \in 0..n}

\* what the run directory holds when the run starts: nothing, or what an earlier
\* run with the same timestamp left (with or without an issues.csv)
NoFiles == [run_dir |-> FALSE, output |-> Absent, issues_csv |-> Absent, summary |-> Absent]
PriorFiles ==
    {NoFiles,
     [run_dir |-> TRUE, output |-> Stale, issues_csv |-> Stale, summary |-> Stale],
     [run_dir |-> TRUE, output |-> Stale, issues_csv |-> Absent, summary |-> Stale]}

\* header texts for canon_col: the two spellings of the contract header and
\* every text of at most MaxLen characters of CanonChars
CanonChars == {"a", "N", "1", " ", "_", "-", ".", "\t", "U+00BA", "U+00E9", "U+00A0", "U+2116"}
CanonNames == {NoContrato, NumeroContrato} \cup SeqsUpTo(CanonChars, MaxLen)

\* raw values for _normalize_yes_no: a missing value (None, NaN), every spelling
\* of the two sets in upper case, in lower case and padded, and every text of at
\* most MaxLen characters of YesNoChars
YesNoChars == {"s", "I", "m", "n", "U+00E3", "O", "1", " "}
Padded(s) == <<" ">> \o s \o <<"\t">>
YesNoSpellings ==
    UNION {{s, Lower(s), Padded(Lower(s))} : s \in YesSet \cup NoSet}
YesNoValues ==
    {None, NaN} \cup {Text(s) : s \in YesNoSpellings \cup SeqsUpTo(YesNoChars, MaxLen)}

\* raw values for _parse_money_mixed: a missing value (None, NaN), the amounts of
\* the docstring and their like, and every text of at most MaxMoney characters
\* of MoneyChars
MoneyChars == {"1", "0", ".", ",", "R", "$", " ", "-", "\t"}
M_pt == <<"3", ".", "0", "0", "0", ",", "0", "0">>
M_en == <<"3", ",", "0", "0", "0", ".", "0", "0">>
M_plain == <<"3", "0", "0", "0", ".", "0", "0">>
M_int == <<"3", "0", "0", "0">>
M_1234 == <<"1", ".", "2", "3", "4">>
MoneyExamples ==
    {M_pt, M_en, M_plain, M_int, M_1234,
     <<"R", "$", " ", "1", ".", "2", "3", "4", ",", "5", "6">>,
     <<"1", ".", "0", "0", "0", ".", "0", "0", "0", ",", "0", "0">>,
     <<"1", ",", "0", "0", "0", ",", "0", "0", "0", ".", "0", "0">>,
     <<"1", ",", "2", ".", "3", ",", "4">>,
     <<"1", "e", "3">>, <<"i", "n", "f">>, <<"n", "a", "n">>, <<"a", "b", "c">>}
MoneyValues ==
    {None, NaN} \cup {Text(s) : s \in MoneyExamples \cup SeqsUpTo(MoneyChars, MaxMoney)}

CanonIdle ==
    /\ cname = <<>> /\ ckey = Unset /\ ckey2 = Unset /\ cpc = "idle"
ParseIdle ==
    /\ raw = None /\ parsed = None /\ parsed2 = None /\ vpc = "idle"
RunIdle ==
    /\ pc = "idle" /\ strict = FALSE /\ df = NoTable /\ df2 = NoTable
    /\ transform_stats = <<>> /\ issues = <<>> /\ has_any = FALSE
    /\ fs = NoFiles /\ fs0 = NoFiles /\ raised = NoError

RunStart(table, files, flags) ==
    /\ pc = "read"
    /\ strict \in flags
    /\ df = table
    /\ df2 = NoTable
    /\ transform_stats = <<>>
    /\ issues = <<>>
    /\ has_any = FALSE
    /\ fs = files
    /\ fs0 = files
    /\ raised = NoError

\* a run of normalize_excel on a small table, from any prior directory
Init ==
    /\ \E sheet \in {SheetExact, SheetAlias, SheetOrdinal, SheetRequiredOnly, SheetNoEmissao},
          rows \in SeqsUpTo(RunRows, MaxRows), files \in PriorFiles :
          RunStart(ReadExcel(sheet, rows), files, BOOLEAN)
    /\ CanonIdle /\ ParseIdle

\* a run of normalize_excel on a table of wide rows (not strict), on a row of
\* five ERRORs, and on a sheet without its contract column
InitWide ==
    /\ \/ \E rows \in SeqsUpTo(WideRows, MaxWideRows) :
             RunStart(ReadExcel(SheetAlias, rows), NoFiles, {FALSE})
       \/ RunStart(ReadExcel(SheetExact, <<RowBad>>), NoFiles, {TRUE})
       \/ RunStart(ReadExcel(SheetOrdinal, <<RowClean>>), NoFiles, {FALSE})
    /\ CanonIdle /\ ParseIdle

\* a run of normalize_excel on a table of stats rows, with and without the rate
\* column; on a row of five ERRORs (strict); on a sheet without its issue date
InitStats ==
    /\ \/ \E sheet \in {SheetAlias, SheetRequiredOnly}, rows \in SeqsUpTo(StatsRows, MaxRows) :
             RunStart(ReadExcel(sheet, rows), NoFiles, {FALSE})
       \/ RunStart(ReadExcel(SheetExact, <<RowBad>>), NoFiles, {TRUE})
       \/ RunStart(ReadExcel(SheetNoEmissao, <<RowClean>>), NoFiles, {FALSE})
    /\ CanonIdle /\ ParseIdle

\* the calls canon_col(name) and canon_col(canon_col(name))
InitCanon ==
    /\ cname \in CanonNames
    /\ ckey = Unset /\ ckey2 = Unset /\ cpc = "given"
    /\ RunIdle /\ ParseIdle

\* the calls _normalize_yes_no(raw) and _normalize_yes_no(_normalize_yes_no(raw))
InitYesNo ==
    /\ raw \in YesNoValues
    /\ parsed = None /\ parsed2 = None /\ vpc = "given"
    /\ RunIdle /\ CanonIdle

\* the call _parse_money_mixed(raw)
InitMoney ==
    /\ raw \in MoneyValues
    /\ parsed = None /\ parsed2 = None /\ vpc = "given"
    /\ RunIdle /\ CanonIdle

Spec == Init /\ [][NextRun]_vars
SpecWide == InitWide /\ [][NextRun]_vars
SpecCanon == InitCanon /\ [][NextCanon]_vars
SpecStats == InitStats /\ [][NextRun]_vars
SpecYesNo == InitYesNo /\ [][NextYesNo]_vars
SpecMoney == InitMoney /\ [][NextMoney]_vars

(***************************************************************************)
(* Properties                                                              *)
(***************************************************************************)
Validated == pc \in {"validated", "issues_written", "saved", "formatted", "done"}
             \/ (pc = "raised" /\ raised.kind = "strict")
HasErrorIssue == \E i \in 1..Len(issues) : issues[i].severity = "ERROR"
WrittenNow(f) == f.state = "written"

\* C1: when a strict run fails on an ERROR issue, the normalized spreadsheet,
\* issues.csv and summary.json have all been written by the run before the raise.
C1_StrictFailureKeepsArtifacts ==
    (pc = "raised" /\ raised.kind = "strict") =>
        /\ WrittenNow(fs.issues_csv)
        /\ WrittenNow(fs.output)
        /\ WrittenNow(fs.summary)

\* C2: with a required column missing after the renaming, the run ends with the
\* error that names the missing columns and the run directory is left as it was:
\* make_run_dir is never reached and no file is written or removed.
C2_MissingColumnsAbortBeforeRunDir ==
    MissingColumns(df) # {} =>
        /\ pc \in {"read", "raised"}
        /\ fs = fs0
        /\ pc = "raised" => raised = MissingError(MissingColumns(df))

C2_Witness ==
    /\ pc = "raised" /\ raised.kind = "missing_columns"
    /\ raised.missing = {col_Emissao, col_VlrLiberado}
    /\ Len(df.data) > 0 /\ fs = NoFiles

C4_IssuesFileIffIssues ==
    (pc \in {"issues_written", "saved", "formatted", "done"}
     \/ (pc = "raised" /\ raised.kind = "strict")) =>
        /\ Exists(fs.issues_csv) <=> issues # <<>>
        /\ has_any <=> issues # <<>>
        /\ issues # <<>> =>
              /\ WrittenNow(fs.issues_csv)
              /\ Len(fs.issues_csv.content) = Len(issues)
              /\ \A i \in 1..Len(issues) :
                    /\ fs.issues_csv.content[i].Severidade = issues[i].severity
                    /\ fs.issues_csv.content[i].Linha = issues[i].row
                    /\ fs.issues_csv.content[i].Mensagem = issues[i].message

C4_Witness ==
    /\ pc = "issues_written" /\ issues = <<>> /\ Len(df.data) > 0
    /\ Exists(fs0.issues_csv) /\ ~Exists(fs.issues_csv) /\ ~has_any

\* the place of each rule in the order the claim gives
RuleRank(message) ==
    CASE message = MsgContrato -> 1
      [] message = MsgCliente -> 2
      [] message = MsgData -> 3
      [] message = MsgValor -> 4
      [] message = MsgWarn -> 5
      [] message = MsgTed -> 6

\* C5: the list validate_dataframe returns is ordered by row index, and within a
\* row by the fixed order of the rules: contract, client, payment date, paid
\* amount, WARN, returned amount.
C5_IssuesInRowAndRuleOrder ==
    Validated =>
        \A i, j \in 1..Len(issues) :
            i < j =>
                /\ issues[i].row <= issues[j].row
                /\ issues[i].row = issues[j].row =>
                      RuleRank(issues[i].message) < RuleRank(issues[j].message)

C5_Witness ==
    /\ Validated /\ Len(issues) >= 8
    /\ \E i \in 1..Len(issues) : issues[i].row = 0 /\ issues[i].message = MsgTed
    /\ \E i \in 1..Len(issues) : issues[i].row = 1 /\ issues[i].message = MsgContrato

(***************************************************************************)
(* Properties of the rows: the raw cell of a row and what it reads as      *)
(***************************************************************************)
\* the cell pd.read_excel gave for the column that normalize_dataframe calls name
\* (None when the sheet has no such column), row at position r
RawCell(r, name) ==
    IF HasColumn(df2, name) THEN df.data[r][ColumnAt(df2, name)] ELSE None
\* the messages of the issues of the row at position r, in the order of the list
RowMessages(r) ==
    LET own(i) == i.row = r - 1
        mine == SelectSeq(issues, own)
    IN  [k \in 1..Len(mine) |-> mine[k].message]
HasMessage(r, message) ==
    \E i \in 1..Len(issues) : issues[i].row = r - 1 /\ issues[i].message = message
CountMessage(r, message) ==
    Cardinality({i \in 1..Len(issues) : issues[i].row = r - 1 /\ issues[i].message = message})
SeverityOf(r, message) ==
    {issues[i].severity : i \in {k \in 1..Len(issues) :
                                    issues[k].row = r - 1 /\ issues[k].message = message}}

\* the cells of the inputs by what they hold: a paid flag that says yes; a date
\* or an amount that is blank or no date / no number; an amount that is a number;
\* a contract or client that is blank, missing or only whitespace
YesCells == {T_sim, T_Sim_padded, T_S}
AbsentDateCells == {NaN, None, T_date_feb31, T_xx}
AbsentMoneyCells == {NaN, None, T_abc}
PresentMoneyCells == {T_money_rs, T_money_pt, T_10}
EmptyTextCells == {NaN, None, T_blanks}

\* C6: for a row whose paid flag reads as yes, the missing-payment-date ERROR is
\* there iff the payment date is blank or no date, and the missing-paid-amount
\* ERROR iff the paid amount is blank or no number; such a row with both blank,
\* a contract, a client and no returned flag has exactly these two issues, the
\* date's first.
C6_PaidYesNeedsDateAndAmount ==
    Validated =>
        \A r \in 1..Len(df.data) :
            RawCell(r, col_Pago) \in YesCells =>
                /\ HasMessage(r, MsgData) <=> RawCell(r, col_DataPagamento) \in AbsentDateCells
                /\ HasMessage(r, MsgValor) <=> RawCell(r, col_VALORPAGO) \in AbsentMoneyCells
                /\ SeverityOf(r, MsgData) \cup SeverityOf(r, MsgValor) \subseteq {"ERROR"}
                /\ ~HasMessage(r, MsgWarn)
                /\ ( /\ RawCell(r, col_DataPagamento) = NaN
                     /\ RawCell(r, col_VALORPAGO) = NaN
                     /\ RawCell(r, col_Contrato) \notin EmptyTextCells
                     /\ RawCell(r, col_Cliente) \notin EmptyTextCells
                     /\ RawCell(r, col_TEDDevolvida) \notin YesCells )
                   => RowMessages(r) = <<MsgData, MsgValor>>

C6_Witness ==
    /\ Validated /\ Len(df.data) > 0
    /\ RawCell(1, col_Pago) = T_sim
    /\ RawCell(1, col_DataPagamento) = T_xx
    /\ RawCell(1, col_VALORPAGO) = T_abc
    /\ RowMessages(1) = <<MsgData, MsgValor>>

\* C7: for a row whose paid flag does not read as yes (no, blank, or some other
\* text) and whose paid amount is a number, there is exactly one WARN and no
\* ERROR about the payment; with a contract, a client and no returned flag the
\* WARN is the row's only issue; and no row has both the WARN and the
\* missing-paid-amount ERROR.
C7_NotPaidWithAmountWarns ==
    Validated =>
        \A r \in 1..Len(df.data) :
            /\ ~(HasMessage(r, MsgWarn) /\ HasMessage(r, MsgValor))
            /\ ( /\ RawCell(r, col_Pago) \notin YesCells
                 /\ RawCell(r, col_VALORPAGO) \in PresentMoneyCells )
               => /\ CountMessage(r, MsgWarn) = 1
                  /\ SeverityOf(r, MsgWarn) = {"WARN"}
                  /\ ~HasMessage(r, MsgData) /\ ~HasMessage(r, MsgValor)
                  /\ ( /\ RawCell(r, col_Contrato) \notin EmptyTextCells
                       /\ RawCell(r, col_Cliente) \notin EmptyTextCells
                       /\ RawCell(r, col_TEDDevolvida) \notin YesCells )
                     => RowMessages(r) = <<MsgWarn>>

C7_Witness ==
    /\ Validated /\ Len(df.data) > 0
    /\ RawCell(1, col_Pago) = T_talvez
    /\ RawCell(1, col_VALORPAGO) = T_money_rs
    /\ RowMessages(1) = <<MsgWarn>>

\* the rows with an empty contract or client cell
EmptyIdentityRows ==
    {r \in 1..Len(df.data) :
        RawCell(r, col_Contrato) \in EmptyTextCells \/ RawCell(r, col_Cliente) \in EmptyTextCells}

\* C8: every row whose contract cell is blank, missing or only whitespace has
\* the contract-empty ERROR, every row whose client cell is so has the
\* client-empty ERROR, and there are at least as many issues as such rows.
C8_EmptyContractOrClientIsError ==
    Validated =>
        /\ \A r \in 1..Len(df.data) :
              /\ RawCell(r, col_Contrato) \in EmptyTextCells => HasMessage(r, MsgContrato)
              /\ RawCell(r, col_Cliente) \in EmptyTextCells => HasMessage(r, MsgCliente)
        /\ Len(issues) >= Cardinality(EmptyIdentityRows)


\* a row with a blank contract cell and a client: validate_dataframe has no
\* issue for it
C8_BlankContractUnreported ==
    /\ Validated /\ Len(df.data) = 1
    /\ RawCell(1, col_Contrato) = NaN
    /\ RawCell(1, col_Cliente) = T_ANA_padded
    /\ Get(df2, 1, col_Contrato) = Text(<<"n", "a", "n">>)
    /\ issues = <<>>


(***************************************************************************)
(* Properties of canon_col                                                 *)
(***************************************************************************)
\* C9 as claimed: the header written "N.o Contrato" (with the ordinal indicator)
\* gets the key of "numero_contrato".
C9_OrdinalContratoSameKey ==
    (cpc \in {"once", "twice"} /\ cname = NoContrato) => ckey = canon_col(NumeroContrato)

KeyNoContrato == <<"n", "o", " ", "c", "o", "n", "t", "r", "a", "t", "o">>
KeyNumeroContrato == <<"n", "u", "m", "e", "r", "o", " ", "c", "o", "n", "t", "r", "a", "t", "o">>

\* C9 as amended: canon_col gives "no contrato" for "N.o Contrato" (the ordinal
\* indicator folds to the letter o) and "numero contrato" for "numero_contrato";
\* the two keys differ and only the second is a key of COLUMN_ALIASES.
C9_OrdinalContratoOwnKey ==
    /\ (cpc \in {"once", "twice"} /\ cname = NoContrato) =>
          ckey = KeyNoContrato /\ ~IsAlias(ckey)
    /\ (cpc \in {"once", "twice"} /\ cname = NumeroContrato) =>
          ckey = KeyNumeroContrato /\ IsAlias(ckey) /\ AliasOf(ckey) = col_Contrato

C9_Witness ==
    /\ cpc = "once" /\ cname = NoContrato
    /\ ckey = KeyNoContrato /\ ckey # KeyNumeroContrato

\* lowercase ASCII letters, digits and single blanks between them
IsCanonical(s) ==
    /\ \A i \in 1..Len(s) : s[i] \in AsciiLower \cup Digits \cup {" "}
    /\ s # <<>> => s[1] # " " /\ s[Len(s)] # " "
    /\ \A i \in 1..(Len(s) - 1) : ~(s[i] = " " /\ s[i + 1] = " ")

\* C10: canon_col(canon_col(s)) = canon_col(s), and canon_col(s) holds only
\* lowercase ASCII letters, digits and single blanks, none at either end.
C10_CanonColIdempotent ==
    /\ cpc \in {"once", "twice"} => IsCanonical(ckey)
    /\ cpc = "twice" => ckey2 = ckey

C10_Witness ==
    /\ cpc = "twice" /\ cname = <<"U+00E9", "_", "N">>
    /\ ckey = <<"e", " ", "n">> /\ ckey2 = ckey

(***************************************************************************)
(* Properties of the field parsers                                         *)
(***************************************************************************)
\* the spellings of yes and of no, in lower case
TruthyLower ==
    {<<"s", "i", "m">>, <<"s">>, <<"y", "e", "s">>, <<"y">>, <<"t", "r", "u", "e">>, <<"1">>}
FalsyLower ==
    {<<"n", "U+00E3", "o">>, <<"n", "a", "o">>, <<"n">>, <<"n", "o">>,
     <<"f", "a", "l", "s", "e">>, <<"0">>}
\* the flag a raw value stands for: yes, no, empty, or its own trimmed text in
\* upper case
FlagOf(v) ==
    IF v \in {None, NaN} THEN <<>>
    ELSE LET t == Strip(v.s)
         IN  IF Lower(t) \in TruthyLower THEN SIM
             ELSE IF Lower(t) \in FalsyLower THEN NAO
             ELSE Upper(t)

\* C11: _normalize_yes_no(_normalize_yes_no(x)) = _normalize_yes_no(x) for every
\* raw value x; a truthy spelling gives "SIM", a falsy one "NAO" (with the
\* tilde), an empty, blank or missing value "", any other text its trimmed
\* upper-case form.
C11_YesNoIdempotent ==
    /\ vpc \in {"once", "twice"} => parsed = Text(FlagOf(raw))
    /\ vpc = "twice" => parsed2 = parsed

C11_Witness ==
    /\ vpc = "twice" /\ raw = Text(<<" ", "m", "I">>)
    /\ parsed = Text(<<"M", "I">>) /\ parsed2 = parsed

\* the amount text without the currency marker and the blanks
Bare(v) == Remove(Remove(Strip(v.s), <<"R", "$">>), <<" ">>)
\* last separator wins: of "." and ",", the one that occurs last in s is the
\* decimal separator (the comma when it is the only one); the other one is taken
\* out and the decimal separator written "."
Decimalized(s) ==
    LET seps == {i \in 1..Len(s) : s[i] \in {".", ","}}
        last == CHOOSE i \in seps : \A j \in seps : j <= i
        dec == IF seps = {} THEN "." ELSE s[last]
        kept(c) == c \notin {".", ","} \/ c = dec
        rest == SelectSeq(s, kept)
    IN  [i \in 1..Len(rest) |-> IF rest[i] = dec THEN "." ELSE rest[i]]
\* s is a literal float() reads as a number
IsNumeral(s) ==
    LET u == Lower(Unsigned(Strip(s))) IN IsDecimal(u) \/ u \in Infinities
HasAmountText(v) == v.k = "str" /\ Strip(v.s) # <<>>

\* C12: _parse_money_mixed takes the last of "." and "," for the decimal
\* separator and removes the other one, takes a lone "," for the decimal
\* separator, and parses a text with "." alone or neither as it is ("1.234" is
\* 1.234); a text that is no number after this, an empty text and a missing value
\* give an absent result; "3.000,00", "3,000.00", "3000.00" and "3000" give 3000.
C12_LastSeparatorWins ==
    vpc = "once" =>
        /\ ~HasAmountText(raw) => IsNa(parsed)
        /\ HasAmountText(raw) /\ IsNumeral(Decimalized(Bare(raw)))
              => parsed = FloatOf(Decimalized(Bare(raw))) /\ parsed.k = "num"
        /\ HasAmountText(raw) /\ ~IsNumeral(Decimalized(Bare(raw))) => IsNa(parsed)
        /\ raw \in {Text(M_pt), Text(M_en), Text(M_plain), Text(M_int)}
              => parsed = Float(Finite(FALSE, 3, 3))
        /\ raw = Text(M_1234) => parsed = Float(Finite(FALSE, 1234, 0 - 3))

C12_Witness ==
    /\ vpc = "once" /\ raw = Text(<<".", ".", ",", "1">>)
    /\ parsed = Float(Finite(FALSE, 1, 0 - 1))

(***************************************************************************)
(* Properties of transform_stats                                           *)
(***************************************************************************)
\* normalize_dataframe returned a table
Accepted == df2 # NoTable
\* the rows whose cell of the column called name is not blank in the sheet, and
\* those whose cell is not None in the normalized table
FilledRows(name) == {r \in 1..Len(df.data) : RawCell(r, name) \notin {NaN, None}}
ValuedRows(name) == {r \in 1..Len(df2.data) : Get(df2, r, name) # None}

\* C13: transform_stats has an entry for the rate column when the table has one,
\* an entry for the issue-date column, and no other entry; in each entry
\* became_empty = before_non_empty - after_non_empty and
\* 0 <= after_non_empty <= before_non_empty <= number of rows, the two counts
\* being the cells filled in the sheet and the cells with a value afterwards.
C13_StatsOnlyForRateAndIssueDate ==
    Accepted =>
        /\ DOMAIN transform_stats =
              {col_Emissao} \cup (IF HasColumn(df2, col_Taxa) THEN {col_Taxa} ELSE {})
        /\ \A name \in DOMAIN transform_stats :
              LET e == transform_stats[name]
              IN  /\ e.became_empty = e.before_non_empty - e.after_non_empty
                  /\ 0 <= e.after_non_empty
                  /\ e.after_non_empty <= e.before_non_empty
                  /\ e.before_non_empty <= Len(df.data)
                  /\ e.before_non_empty = Cardinality(FilledRows(name))
                  /\ e.after_non_empty = Cardinality(ValuedRows(name))

C13_Witness ==
    /\ pc = "done" /\ Len(df.data) = 2
    /\ DOMAIN transform_stats = {col_Emissao, col_Taxa}
    /\ HasColumn(df2, col_DataPagamento)
    /\ transform_stats[col_Emissao] =
          [before_non_empty |-> 2, after_non_empty |-> 1, became_empty |-> 1]
    /\ transform_stats[col_Taxa] =
          [before_non_empty |-> 1, after_non_empty |-> 0, became_empty |-> 1]

====
